---- MODULE Spec2Model ----
(***************************************************************************)
(* A model of fetch_versions.py: the paginated fetchers fetch_repos and     *)
(* fetch_tags, the selector get_latest_version_tag, the cache functions     *)
(* load_unversioned / save_unversioned, and main.                           *)
(*                                                                         *)
(* Text (tag names, repository names, file contents) is a sequence of       *)
(* one-character strings, so that strip(), splitlines(), lower(), the       *)
(* regular expression and the f-strings are computed, not assumed.          *)
(***************************************************************************)
EXTENDS Integers, Sequences, FiniteSets, TLC

VARIABLES
    \* get_latest_version_tag called on its own
    tags,          \* the argument: a sequence of tag strings
    latest,        \* the value returned
    selPc,         \* "call" | "done"
    \* fetch_repos / fetch_tags called on their own
    fn,            \* "fetch_repos" | "fetch_tags"
    page,          \* the local variable page
    items,         \* the local list repos / tags
    requests,      \* the page numbers requested so far, in order
    responses,     \* what the server answered to each request
    pagePc,        \* "loop" | "returned" | "raised"
    \* the files
    versions_file,     \* VERSIONS_FILE
    readme_file,       \* README_FILE
    unversioned_file,  \* UNVERSIONED_FILE
    \* load_unversioned / save_unversioned called on their own
    save_arg,      \* the argument of save_unversioned, in the set's iteration order
    loaded,        \* the set load_unversioned returned
    cachePc,       \* "save" | "load" | "done"
    \* main
    pc,            \* "idle" | "fetch_repos" | "loop" | "update_readme" |
                   \* "save_unversioned" | "done" | "aborted"
    unversioned,   \* the cache loaded at the start of the run
    repos,         \* what fetch_repos returned
    idx,           \* the position of the for loop in repos
    versions,      \* the list of (repo_name, latest_tag)
    new_unversioned,
    versions_content,
    \* what the run has done so far (history, read by the properties only)
    fetch_log,     \* the fetch_tags calls of this run: org, name, what followed
    start_files,   \* the three files as they were when the run started
    writes,        \* the files written in this run, in order
    cached_before, \* names that were in the cache file after some earlier run
    sticky         \* names cached after some earlier run and listed by every
                   \* completed run since

selVars == <<tags, latest, selPc>>
pageVars == <<fn, page, items, requests, responses, pagePc>>
fileVars == <<versions_file, readme_file, unversioned_file>>
cacheVars == <<save_arg, loaded, cachePc>>
runVars == <<pc, unversioned, repos, idx, versions, new_unversioned, versions_content>>
histVars == <<fetch_log, start_files, writes, cached_before, sticky>>
mainVars == <<runVars, histVars>>
vars == <<selVars, pageVars, fileVars, cacheVars, mainVars>>

----------------------------------------------------------------------------
(* Characters and strings *)

\* The code points of the characters the model uses (Python compares str by
\* code point).
Ord(c) ==
    CASE c = "\t" -> 9   [] c = "\n" -> 10  [] c = " " -> 32
      [] c = "-" -> 45   [] c = "." -> 46   [] c = "/" -> 47
      [] c = "0" -> 48   [] c = "1" -> 49   [] c = "2" -> 50
      [] c = "9" -> 57   [] c = "@" -> 64
      [] c = "A" -> 65   [] c = "B" -> 66   [] c = "V" -> 86
      [] c = "a" -> 97   [] c = "b" -> 98   [] c = "c" -> 99
      [] c = "e" -> 101  [] c = "i" -> 105  [] c = "n" -> 110
      [] c = "o" -> 111  [] c = "s" -> 115  [] c = "t" -> 116
      [] c = "v" -> 118

IsSpace(c) == c \in {" ", "\t", "\n"}
IsDigit(c) == c \in {"0", "1", "2", "9"}
DigitVal(c) == Ord(c) - Ord("0")

\* str.lower()
LowerChar(c) ==
    CASE c = "A" -> "a" [] c = "B" -> "b" [] c = "V" -> "v" [] OTHER -> c
Lower(s) == [i \in 1..Len(s) |-> LowerChar(s[i])]

\* str < str: lexicographic on code points
RECURSIVE StrLess(_, _)
StrLess(a, b) ==
    IF b = <<>> THEN FALSE
    ELSE IF a = <<>> THEN TRUE
    ELSE IF a[1] = b[1] THEN StrLess(Tail(a), Tail(b))
    ELSE Ord(a[1]) < Ord(b[1])

\* str.strip(): leading and trailing whitespace removed
RECURSIVE LStrip(_)
LStrip(s) == IF s # <<>> /\ IsSpace(s[1]) THEN LStrip(Tail(s)) ELSE s
RECURSIVE RStrip(_)
RStrip(s) ==
    IF s # <<>> /\ IsSpace(s[Len(s)]) THEN RStrip(SubSeq(s, 1, Len(s) - 1)) ELSE s
Strip(s) == RStrip(LStrip(s))

\* int(): a digit run read in base 10, of any length
RECURSIVE IntOf(_)
IntOf(ds) ==
    IF ds = <<>> THEN 0
    ELSE 10 * IntOf(SubSeq(ds, 1, Len(ds) - 1)) + DigitVal(ds[Len(ds)])

\* Concatenation of a sequence of sequences
RECURSIVE Flatten(_)
Flatten(ss) == IF ss = <<>> THEN <<>> ELSE Head(ss) \o Flatten(Tail(ss))

\* All sequences over S of length 0..n
SeqsUpTo(S, n) == UNION {[1..k -> S] : k \in 0..n}

\* The pairs of positions of a sequence
Pairs(seq) == (1..Len(seq)) \X (1..Len(seq))

\* A stable sort of seq; before[<<i, j>>] says that seq[i] sorts strictly
\* before seq[j] (a strict weak order). An element is placed after those that
\* sort before it and after the earlier elements it ties with (list.sort and
\* sorted are stable).
StableSort(seq, before) ==
    LET n == Len(seq)
        rank(i) == 1 + Cardinality({j \in 1..n :
                        \/ before[<<j, i>>]
                        \/ (~before[<<i, j>>] /\ j < i)})
    IN  [k \in 1..n |-> seq[CHOOSE i \in 1..n : rank(i) = k]]

----------------------------------------------------------------------------
(* get_latest_version_tag *)

\* Python's None and a returned str
None == [isNone |-> TRUE, str |-> <<>>]
Some(s) == [isNone |-> FALSE, str |-> s]
\* The truth value Python gives an optional str (None and "" are false)
Truthy(r) == ~r.isNone /\ r.str # <<>>

\* The length of the longest run of digits starting at s[i]
RECURSIVE DigitRun(_, _)
DigitRun(s, i) ==
    IF i <= Len(s) /\ IsDigit(s[i]) THEN 1 + DigitRun(s, i + 1) ELSE 0

\* version_pattern.match(s) for r"^v(\d+)$": group 1, or None. \d+ is greedy
\* and what follows it is a digit-free rest, so the match succeeds iff the rest
\* is empty or a single final newline ($ also matches before a final newline).
version_pattern(s) ==
    IF Len(s) >= 2 /\ s[1] = "v" /\ DigitRun(s, 2) >= 1
       /\ SubSeq(s, 2 + DigitRun(s, 2), Len(s)) \in {<<>>, <<"\n">>}
    THEN Some(SubSeq(s, 2, 1 + DigitRun(s, 2)))
    ELSE None

\* The list version_tags: (int(match.group(1)), tag.strip()) per matching tag
RECURSIVE version_tags(_)
version_tags(ts) ==
    IF ts = <<>> THEN <<>>
    ELSE LET m == version_pattern(Strip(Head(ts)))
         IN  (IF m.isNone THEN <<>>
              ELSE <<[num |-> IntOf(m.str), tag |-> Strip(Head(ts))]>>)
             \o version_tags(Tail(ts))

\* A variant of the sort order: the tag strings compared, not the numbers
sort_key_before_lexicographic(x, y) == StrLess(y.tag, x.tag)

\* version_tags.sort(reverse=True, key=lambda x: x[0]): x sorts before y iff
\* its number is greater; equal numbers keep their order (the sort is stable,
\* with reverse=True too).
sort_key_before(x, y) == x.num > y.num

get_latest_version_tag(ts) ==
    LET vt == version_tags(ts)
    IN  IF vt = <<>> THEN None
        ELSE Some(StableSort(vt, [ij \in Pairs(vt) |->
                      sort_key_before(vt[ij[1]], vt[ij[2]])])[1].tag)

\* Tag names the selector is tried on: the cases of the tests and of the
\* documentation (v1 v2 v9 v10 v01 V1 v1-beta v1.0 " v1" "v1 " "v 1" "1" "v" "").
TagPool ==
    { <<"v", "1">>, <<"v", "2">>, <<"v", "9">>, <<"v", "1", "0">>,
      <<"v", "0", "1">>, <<"V", "1">>, <<"v", "1", "-", "b", "e", "t", "a">>,
      <<"v", "1", ".", "0">>, <<" ", "v", "1">>, <<"v", "2", " ">>,
      <<"v", "\n">>, <<"v", " ", "1">>, <<"1">>, <<"v">>, <<>> }

\* The longest tag list tried
MaxTags == 3

InitSelect ==
    /\ tags \in SeqsUpTo(TagPool, MaxTags)
    /\ latest = None
    /\ selPc = "call"

GetLatestVersionTag ==
    /\ selPc = "call"
    /\ latest' = get_latest_version_tag(tags)
    /\ selPc' = "done"
    /\ UNCHANGED <<tags, pageVars, fileVars, cacheVars, mainVars>>

IdleSelect == tags = <<>> /\ latest = None /\ selPc = "idle"

----------------------------------------------------------------------------
(* fetch_repos and fetch_tags *)

\* per_page = 100, in both fetchers
per_page == 100

\* The most pages a listing has: the server answers page MaxPages with fewer
\* than per_page items.
MaxPages == 3

\* What json.loads(result.stdout) can be for request number p, or how the
\* request fails. A listing page holds at most per_page items, here named
\* <<p, i>>; an error payload is an object with the keys message and
\* documentation_url.
ListPage(p, n) == [kind |-> "list", body |-> [i \in 1..n |-> <<p, i>>]]
ErrorPayload == [kind |-> "object", body |-> << <<"message">>, <<"documentation_url">> >>]
TransportFailure == [kind |-> "CalledProcessError", body |-> <<>>]
InvalidJson == [kind |-> "JSONDecodeError", body |-> <<>>]
ServerAnswers(p) ==
    {ListPage(p, n) : n \in 0..(IF p < MaxPages THEN per_page ELSE per_page - 1)}
        \cup {ErrorPayload, TransportFailure, InvalidJson}

Raises(resp) == resp.kind \in {"CalledProcessError", "JSONDecodeError"}

\* A variant of the test that ends the loop: len(page) <= per_page
is_last_page_le(n) == n <= per_page

\* if len(page_repos) < per_page: break
is_last_page(n) == n < per_page

InitPage ==
    /\ fn \in {"fetch_repos", "fetch_tags"}
    /\ page = 1
    /\ items = <<>>
    /\ requests = <<>>
    /\ responses = <<>>
    /\ pagePc = "loop"

\* One iteration of the loop of fetch_repos: the request for the current page
\* and what the body does with the answer.
FetchReposIteration ==
    /\ fn = "fetch_repos"
    /\ pagePc = "loop"
    /\ \E resp \in ServerAnswers(page) :
        /\ requests' = Append(requests, page)
        /\ responses' = Append(responses, resp)
        /\ IF Raises(resp)
           THEN pagePc' = "raised" /\ UNCHANGED <<items, page>>
           ELSE IF resp.body = <<>>                     \* if not page_repos: break
           THEN pagePc' = "returned" /\ UNCHANGED <<items, page>>
           ELSE /\ items' = items \o resp.body          \* repos.extend(page_repos)
                /\ IF is_last_page(Len(resp.body))
                   THEN pagePc' = "returned" /\ UNCHANGED page
                   ELSE pagePc' = "loop" /\ page' = page + 1
    /\ UNCHANGED <<fn, selVars, fileVars, cacheVars, mainVars>>

\* One iteration of the loop of fetch_tags.
FetchTagsIteration ==
    /\ fn = "fetch_tags"
    /\ pagePc = "loop"
    /\ \E resp \in ServerAnswers(page) :
        /\ requests' = Append(requests, page)
        /\ responses' = Append(responses, resp)
        /\ IF Raises(resp)
           THEN pagePc' = "raised" /\ UNCHANGED <<items, page>>
           ELSE IF resp.kind = "object"      \* isinstance(dict) and "message" in it: break
           THEN pagePc' = "returned" /\ UNCHANGED <<items, page>>
           ELSE IF resp.body = <<>>                     \* if not page_tags: break
           THEN pagePc' = "returned" /\ UNCHANGED <<items, page>>
           ELSE /\ items' = items \o resp.body          \* tags.extend(names)
                /\ IF is_last_page(Len(resp.body))
                   THEN pagePc' = "returned" /\ UNCHANGED page
                   ELSE pagePc' = "loop" /\ page' = page + 1
    /\ UNCHANGED <<fn, selVars, fileVars, cacheVars, mainVars>>

IdlePage ==
    /\ fn = "none" /\ page = 0 /\ items = <<>>
    /\ requests = <<>> /\ responses = <<>> /\ pagePc = "idle"

----------------------------------------------------------------------------
(* The files, load_unversioned and save_unversioned *)

Absent == [exists |-> FALSE, text |-> <<>>]
File(t) == [exists |-> TRUE, text |-> t]

\* str.splitlines(): the lines of a text, without their line breaks; a final
\* line break opens no further line.
RECURSIVE SplitLines(_)
SplitLines(t) ==
    IF t = <<>> THEN <<>>
    ELSE LET brk == {i \in 1..Len(t) : t[i] = "\n"}
         IN  IF brk = {} THEN <<t>>
             ELSE LET i == CHOOSE k \in brk : \A m \in brk : k <= m
                  IN  <<SubSeq(t, 1, i - 1)>> \o SplitLines(SubSeq(t, i + 1, Len(t)))

\* load_unversioned, reading file f
load_unversioned(f) ==
    IF ~f.exists THEN {}
    ELSE LET ls == SplitLines(f.text)
         IN  {Strip(ls[i]) : i \in {k \in 1..Len(ls) : Strip(ls[k]) # <<>>}}

\* A variant of save_unversioned that writes the names in iteration order
unversioned_text_unsorted(order) ==
    Flatten([k \in 1..Len(order) |-> order[k] \o <<"\n">>])

\* What save_unversioned writes for a set iterated in the given order:
\* f"{repo_name}\n" for each name of sorted(repos)
unversioned_text(order) ==
    LET names == StableSort(order, [ij \in Pairs(order) |->
                     StrLess(order[ij[1]], order[ij[2]])])
    IN  Flatten([k \in 1..Len(names) |-> names[k] \o <<"\n">>])

\* Some order in which a set is iterated
RECURSIVE IterationOrder(_)
IterationOrder(S) ==
    IF S = {} THEN <<>>
    ELSE LET x == CHOOSE y \in S : TRUE IN <<x>> \o IterationOrder(S \ {x})

Range(seq) == {seq[i] : i \in 1..Len(seq)}
Distinct(seq) == \A i, j \in 1..Len(seq) : i # j => seq[i] # seq[j]

\* The names save_unversioned is tried on, repository names and other strings:
\* a B b ab " a" "a " "a\nb" ""
CacheNamePool ==
    { <<"a">>, <<"B">>, <<"b">>, <<"a", "b">>, <<" ", "a">>, <<"a", " ">>,
      <<"a", "\n", "b">>, <<>> }

\* The largest set saved
MaxSetSize == 3

InitCache ==
    /\ save_arg \in {o \in SeqsUpTo(CacheNamePool, MaxSetSize) : Distinct(o)}
    /\ loaded = {}
    /\ cachePc = "save"

SaveUnversioned ==
    /\ cachePc = "save"
    /\ unversioned_file' = File(unversioned_text(save_arg))
    /\ cachePc' = "load"
    /\ UNCHANGED <<save_arg, loaded, versions_file, readme_file,
                   selVars, pageVars, mainVars>>

LoadUnversioned ==
    /\ cachePc = "load"
    /\ loaded' = load_unversioned(unversioned_file)
    /\ cachePc' = "done"
    /\ UNCHANGED <<save_arg, fileVars, selVars, pageVars, mainVars>>

----------------------------------------------------------------------------
(* update_readme *)

README_START_MARKER == "<!-- VERSIONS_START -->"
README_END_MARKER == "<!-- VERSIONS_END -->"

\* A README text is a sequence of characters in which each marker, and each
\* fixed piece of the section (the heading, the code fence), is one element.
Heading == "## Latest versions"
Fence == "[code fence]"
new_section(content) ==
    <<README_START_MARKER, "\n", Heading, "\n", "\n", Fence, "\n">>
        \o content \o <<Fence, "\n", README_END_MARKER>>

FirstIndex(t, c, from) ==
    LET at == {i \in from..Len(t) : t[i] = c}
    IN  IF at = {} THEN 0 ELSE CHOOSE i \in at : \A k \in at : i <= k

\* pattern.sub(section, text) for START .*? END with DOTALL: every
\* non-overlapping stretch from a start marker to the first end marker after
\* it is replaced, left to right.
RECURSIVE pattern_sub(_, _)
pattern_sub(section, t) ==
    LET i == FirstIndex(t, README_START_MARKER, 1)
        j == IF i = 0 THEN 0 ELSE FirstIndex(t, README_END_MARKER, i + 1)
    IN  IF i = 0 \/ j = 0 THEN t
        ELSE SubSeq(t, 1, i - 1) \o section
                 \o pattern_sub(section, SubSeq(t, j + 1, Len(t)))

\* A variant of update_readme that only replaces a section the file already has
update_readme_replace_only(f, content) ==
    IF ~f.exists THEN f
    ELSE File(pattern_sub(new_section(content), f.text))

\* The README file after update_readme(content)
update_readme(f, content) ==
    IF ~f.exists THEN f
    ELSE IF README_START_MARKER \in Range(f.text) /\ README_END_MARKER \in Range(f.text)
    THEN File(pattern_sub(new_section(content), f.text))
    ELSE File(RStrip(f.text) \o <<"\n", "\n">> \o new_section(content) \o <<"\n">>)

----------------------------------------------------------------------------
(* main *)

ORG_NAME == <<"a", "c", "t", "i", "o", "n", "s">>

\* EXTERNAL_REPOS as the tests set it: main is to read it, and does not
EXTERNAL_REPOS ==
    << [org |-> <<"a", "s", "t", "r", "a", "l", "-", "s", "h">>,
        repo |-> <<"s", "e", "t", "u", "p", "-", "u", "v">>] >>

\* The repository names the organization's listing draws from
NamePool == { <<"a">>, <<"B">>, <<"b">> }

\* The most repositories a listing returns
MaxRepos == 2

\* What fetch_repos can return to main: a list of repository objects with
\* distinct names, or the keys of an error payload (fetch_repos extends its
\* list with whatever the page iterates over).
RepoObject(n) == [isDict |-> TRUE, name |-> n]
KeyString(k) == [isDict |-> FALSE, name |-> k]
Listings ==
    {[i \in 1..Len(o) |-> RepoObject(o[i])] :
        o \in {q \in SeqsUpTo(NamePool, MaxRepos) : Distinct(q)}}
        \cup { <<KeyString(<<"message">>), KeyString(<<"documentation_url">>)>> }

\* What fetch_tags can return to main: v9 sorts after v10 as a string
TagLists == { <<>>, << <<"v", "1">> >>, << <<"v", "9">>, <<"v", "1", "0">> >> }

Files == <<versions_file, readme_file, unversioned_file>>

\* if repo_name in unversioned
is_cached(name, cache) == name \in cache

\* A variant of the skip branch that does not carry the name forward
after_skip_dropping(nu, name) == nu

\* new_unversioned.add(repo_name) of the skip branch
after_skip(nu, name) == nu \cup {name}

\* A variant of the branch on latest_tag that also caches versioned names
after_select_both(vs, nu, name, lt) ==
    IF Truthy(lt)
    THEN [versions |-> Append(vs, <<name, lt.str>>), new_unversioned |-> nu \cup {name}]
    ELSE [versions |-> vs, new_unversioned |-> nu \cup {name}]

\* if latest_tag: versions.append(...) else: new_unversioned.add(repo_name)
after_select(vs, nu, name, lt) ==
    IF Truthy(lt)
    THEN [versions |-> Append(vs, <<name, lt.str>>), new_unversioned |-> nu]
    ELSE [versions |-> vs, new_unversioned |-> nu \cup {name}]

\* A variant of the loop that flushes the cache file as it goes
cache_file_in_loop_flushing(f, nu) == File(unversioned_text(IterationOrder(nu)))

\* The cache file after an iteration of the loop: the loop writes no file
cache_file_in_loop(f, nu) == f

\* A variant of the sort key without lower()
versions_before_case_sensitive(x, y) == StrLess(x[1], y[1])

\* versions.sort(key=lambda x: x[0].lower())
versions_before(x, y) == StrLess(Lower(x[1]), Lower(y[1]))

\* "\n".join(lines)
RECURSIVE JoinLines(_)
JoinLines(ls) ==
    IF ls = <<>> THEN <<>>
    ELSE IF Len(ls) = 1 THEN ls[1]
    ELSE ls[1] \o <<"\n">> \o JoinLines(Tail(ls))

\* f"{ORG_NAME}/{repo_name}@{tag}"
manifest_line(v) == ORG_NAME \o <<"/">> \o v[1] \o <<"@">> \o v[2]

build_versions_content(vs) ==
    JoinLines([k \in 1..Len(vs) |-> manifest_line(vs[k])]) \o <<"\n">>

\* The README before the first run: none, or a text without the markers
InitialReadmes == {Absent, File(<<"t", "\n", "\n">>)}

InitMain ==
    /\ versions_file = Absent
    /\ unversioned_file = Absent
    /\ readme_file \in InitialReadmes
    /\ pc = "idle"
    /\ unversioned = {} /\ repos = <<>> /\ idx = 0
    /\ versions = <<>> /\ new_unversioned = {} /\ versions_content = <<>>
    /\ fetch_log = <<>> /\ start_files = Files /\ writes = <<>>
    /\ cached_before = {} /\ sticky = {}

ListedNames(rs) == {rs[i].name : i \in {k \in 1..Len(rs) : rs[k].isDict}}

\* A run starts: unversioned = load_unversioned()
StartRun ==
    /\ pc \in {"idle", "done", "aborted"}
    /\ unversioned' = load_unversioned(unversioned_file)
    /\ pc' = "fetch_repos"
    /\ repos' = <<>> /\ idx' = 0
    /\ versions' = <<>> /\ new_unversioned' = {} /\ versions_content' = <<>>
    /\ fetch_log' = <<>> /\ start_files' = Files /\ writes' = <<>>
    /\ cached_before' = cached_before \cup load_unversioned(unversioned_file)
    /\ sticky' = (IF pc = "done" THEN sticky \cap ListedNames(repos) ELSE sticky)
                    \cup load_unversioned(unversioned_file)
    /\ UNCHANGED <<fileVars, selVars, pageVars, cacheVars>>

\* repos = fetch_repos(ORG_NAME), which returns a list
FetchReposReturns ==
    /\ pc = "fetch_repos"
    /\ \E rs \in Listings : repos' = rs
    /\ idx' = 1
    /\ pc' = "loop"
    /\ UNCHANGED <<unversioned, versions, new_unversioned, versions_content,
                   histVars, fileVars, selVars, pageVars, cacheVars>>

\* repos = fetch_repos(ORG_NAME), which raises (CalledProcessError or
\* JSONDecodeError): the run ends there
FetchReposRaises ==
    /\ pc = "fetch_repos"
    /\ pc' = "aborted"
    /\ UNCHANGED <<unversioned, repos, idx, versions, new_unversioned,
                   versions_content, histVars, fileVars, selVars, pageVars, cacheVars>>

\* repo["name"] on an element that is a str: TypeError, the run ends there
LoopTypeError ==
    /\ pc = "loop" /\ idx <= Len(repos)
    /\ ~repos[idx].isDict
    /\ pc' = "aborted"
    /\ UNCHANGED <<unversioned, repos, idx, versions, new_unversioned,
                   versions_content, histVars, fileVars, selVars, pageVars, cacheVars>>

\* An iteration for a repository of the loaded cache
SkipCached ==
    /\ pc = "loop" /\ idx <= Len(repos)
    /\ repos[idx].isDict
    /\ is_cached(repos[idx].name, unversioned)
    /\ new_unversioned' = after_skip(new_unversioned, repos[idx].name)
    /\ idx' = idx + 1
    /\ unversioned_file' = cache_file_in_loop(unversioned_file, new_unversioned')
    /\ UNCHANGED <<pc, unversioned, repos, versions, versions_content, histVars,
                   versions_file, readme_file, selVars, pageVars, cacheVars>>

\* An iteration for any other repository, in which fetch_tags returns
FetchTagsReturns ==
    /\ pc = "loop" /\ idx <= Len(repos)
    /\ repos[idx].isDict
    /\ ~is_cached(repos[idx].name, unversioned)
    /\ \E ts \in TagLists :
        LET name == repos[idx].name
            lt == get_latest_version_tag(ts)
            r == after_select(versions, new_unversioned, name, lt)
        IN  /\ versions' = r.versions
            /\ new_unversioned' = r.new_unversioned
            /\ fetch_log' = Append(fetch_log,
                   [org |-> ORG_NAME, name |-> name, raised |-> FALSE, latest |-> lt])
    /\ idx' = idx + 1
    /\ unversioned_file' = cache_file_in_loop(unversioned_file, new_unversioned')
    /\ UNCHANGED <<pc, unversioned, repos, versions_content, start_files, writes,
                   cached_before, sticky, versions_file, readme_file,
                   selVars, pageVars, cacheVars>>

\* An iteration in which fetch_tags raises: the run ends there
FetchTagsRaises ==
    /\ pc = "loop" /\ idx <= Len(repos)
    /\ repos[idx].isDict
    /\ ~is_cached(repos[idx].name, unversioned)
    /\ fetch_log' = Append(fetch_log,
           [org |-> ORG_NAME, name |-> repos[idx].name, raised |-> TRUE, latest |-> None])
    /\ pc' = "aborted"
    /\ UNCHANGED <<unversioned, repos, idx, versions, new_unversioned,
                   versions_content, start_files, writes, cached_before, sticky,
                   fileVars, selVars, pageVars, cacheVars>>

\* After the loop: the sort, versions_content, and the write of versions.txt
WriteVersions ==
    /\ pc = "loop" /\ idx > Len(repos)
    /\ versions' = StableSort(versions, [ij \in Pairs(versions) |->
                      versions_before(versions[ij[1]], versions[ij[2]])])
    /\ versions_content' = build_versions_content(versions')
    /\ versions_file' = File(versions_content')
    /\ writes' = Append(writes, "versions.txt")
    /\ pc' = "update_readme"
    /\ UNCHANGED <<unversioned, repos, idx, new_unversioned, fetch_log, start_files,
                   cached_before, sticky, readme_file, unversioned_file,
                   selVars, pageVars, cacheVars>>

\* update_readme(versions_content)
UpdateReadme ==
    /\ pc = "update_readme"
    /\ readme_file' = update_readme(readme_file, versions_content)
    /\ writes' = IF readme_file.exists THEN Append(writes, "README.md") ELSE writes
    /\ pc' = "save_unversioned"
    /\ UNCHANGED <<unversioned, repos, idx, versions, new_unversioned,
                   versions_content, fetch_log, start_files, cached_before, sticky,
                   versions_file, unversioned_file, selVars, pageVars, cacheVars>>

\* save_unversioned(new_unversioned), and main returns
SaveNewUnversioned ==
    /\ pc = "save_unversioned"
    /\ unversioned_file' = File(unversioned_text(IterationOrder(new_unversioned)))
    /\ writes' = Append(writes, "unversioned.txt")
    /\ pc' = "done"
    /\ UNCHANGED <<unversioned, repos, idx, versions, new_unversioned,
                   versions_content, fetch_log, start_files, cached_before, sticky,
                   versions_file, readme_file, selVars, pageVars, cacheVars>>

IdleCache == save_arg = <<>> /\ loaded = {} /\ cachePc = "idle"
NoFiles ==
    /\ versions_file = Absent /\ readme_file = Absent /\ unversioned_file = Absent

IdleMain ==
    /\ pc = "off" /\ unversioned = {} /\ repos = <<>> /\ idx = 0
    /\ versions = <<>> /\ new_unversioned = {} /\ versions_content = <<>>
    /\ fetch_log = <<>> /\ start_files = <<>> /\ writes = <<>>
    /\ cached_before = {} /\ sticky = {}

----------------------------------------------------------------------------
(* Specifications *)

\* get_latest_version_tag on every list of at most MaxTags tags of TagPool
InitS == InitSelect /\ IdlePage /\ NoFiles /\ IdleCache /\ IdleMain
NextSelect == GetLatestVersionTag
SpecSelect == InitS /\ [][NextSelect]_vars

\* fetch_repos and fetch_tags against every server of at most MaxPages pages
InitP == InitPage /\ IdleSelect /\ NoFiles /\ IdleCache /\ IdleMain
NextPage == FetchReposIteration \/ FetchTagsIteration
SpecPage == InitP /\ [][NextPage]_vars

\* save_unversioned and then load_unversioned
InitC == InitCache /\ NoFiles /\ IdleSelect /\ IdlePage /\ IdleMain
NextCache == SaveUnversioned \/ LoadUnversioned
SpecCache == InitC /\ [][NextCache]_vars

\* Runs of main, one after the other, the files changed by main alone
Init == InitMain /\ IdleSelect /\ IdlePage /\ IdleCache
Next ==
    \/ StartRun
    \/ FetchReposReturns
    \/ FetchReposRaises
    \/ LoopTypeError
    \/ SkipCached
    \/ FetchTagsReturns
    \/ FetchTagsRaises
    \/ WriteVersions
    \/ UpdateReadme
    \/ SaveNewUnversioned
Spec == Init /\ [][Next]_vars

\* The same runs, in which a run that has started takes its next step: main is
\* sequential code, and each call it makes returns or raises (fetch_repos and
\* fetch_tags end on the first short page of a finite listing).
RunStep ==
    \/ FetchReposReturns
    \/ FetchReposRaises
    \/ LoopTypeError
    \/ SkipCached
    \/ FetchTagsReturns
    \/ FetchTagsRaises
    \/ WriteVersions
    \/ UpdateReadme
    \/ SaveNewUnversioned
FairSpec == Init /\ [][Next]_vars /\ WF_vars(RunStep)

----------------------------------------------------------------------------
(* C1: get_latest_version_tag returns None exactly when no tag, trimmed, is   *)
(* 'v' followed by one or more decimal digits and nothing else; otherwise it *)
(* returns the trimmed string of a qualifying tag whose number is greater    *)
(* than or equal to that of every qualifying tag, never a non-qualifying one.*)

\* The claim's own reading of "qualifies": v, then only digits, at least one
Qualifies(s) ==
    /\ Len(s) >= 2
    /\ s[1] = "v"
    /\ \A i \in 2..Len(s) : IsDigit(s[i])
QualNum(s) == IntOf(SubSeq(s, 2, Len(s)))
QualifyingOf(ts) == {Strip(ts[i]) : i \in {j \in 1..Len(ts) : Qualifies(Strip(ts[j]))}}

\* C1: None iff no tag qualifies; otherwise the trimmed string of a
\* qualifying tag whose number no qualifying tag exceeds.
C1_SelectorContract ==
    selPc = "done" =>
        LET Q == QualifyingOf(tags)
        IN  /\ latest.isNone <=> Q = {}
            /\ ~latest.isNone =>
                 /\ latest.str \in Q
                 /\ \A q \in Q : QualNum(latest.str) >= QualNum(q)

\* v10 is returned from a list that also holds v9 and a non-qualifying tag
C1_Witness ==
    /\ selPc = "done"
    /\ latest = Some(<<"v", "1", "0">>)
    /\ \E i \in 1..Len(tags) : tags[i] = <<"v", "9">>
    /\ \E i \in 1..Len(tags) : ~Qualifies(Strip(tags[i]))

----------------------------------------------------------------------------
(* C2: for fetch_repos and fetch_tags, when the server answers N full pages  *)
(* and then a page shorter than per_page (possibly empty), the fetcher       *)
(* issues exactly N+1 requests, for pages 1..N+1 in increasing order, and    *)
(* returns the items of all pages concatenated in request order; page k+1 is *)
(* requested only if page k was exactly full.                                *)

IsList(resp) == resp.kind = "list"
IsFull(resp) == IsList(resp) /\ Len(resp.body) = per_page
IsShort(resp) == IsList(resp) /\ Len(resp.body) < per_page
AllLists == \A k \in 1..Len(responses) : IsList(responses[k])
Bodies == [k \in 1..Len(responses) |-> responses[k].body]

\* C2: requests are pages 1, 2, ... in order, each after a full page only; a
\* fetcher that returned after lists only stopped at the first short page and
\* returns all the pages' items in order.
C2_Pagination ==
    /\ requests = [k \in 1..Len(requests) |-> k]
    /\ Len(responses) = Len(requests)
    /\ \A k \in 2..Len(requests) : IsFull(responses[k - 1])
    /\ (pagePc = "returned" /\ AllLists) =>
          /\ Len(responses) >= 1
          /\ IsShort(responses[Len(responses)])
          /\ items = Flatten(Bodies)
    /\ (pagePc = "loop" /\ AllLists) =>
          /\ \A k \in 1..Len(responses) : IsFull(responses[k])
          /\ page = Len(requests) + 1

\* Two full pages and then a short, non-empty one: three requests
C2_Witness ==
    /\ pagePc = "returned"
    /\ requests = <<1, 2, 3>>
    /\ IsFull(responses[1]) /\ IsFull(responses[2])
    /\ IsShort(responses[3]) /\ responses[3].body # <<>>
    /\ Len(items) > 2 * per_page

----------------------------------------------------------------------------
(* C6: whenever a tags request returns an error payload, on whichever page,  *)
(* fetch_tags issues no further request, does not raise, and returns the     *)
(* empty sequence.                                                           *)

C6_ErrorPayloadYieldsEmpty ==
    (fn = "fetch_tags" /\ responses # <<>>
        /\ responses[Len(responses)] = ErrorPayload) =>
            /\ pagePc = "returned"
            /\ items = <<>>

----------------------------------------------------------------------------
(* C8 as stated: for every set S of names, save_unversioned(S) followed by   *)
(* load_unversioned() yields S, and the file is the same whatever the order  *)
(* of S: one name per line in ascending order.                               *)

\* The orders a set can be iterated in
OrdersOf(S) == {o \in [1..Cardinality(S) -> S] : Range(o) = S}
Ascending(seq) == \A i \in 1..(Len(seq) - 1) : StrLess(seq[i], seq[i + 1])
OnePerLineAscending(text, S) ==
    \E o \in OrdersOf(S) :
        /\ Ascending(o)
        /\ text = Flatten([k \in 1..Len(o) |-> o[k] \o <<"\n">>])

CleanName(n) ==
    /\ n # <<>>
    /\ Strip(n) = n
    /\ \A i \in 1..Len(n) : n[i] # "\n"

----------------------------------------------------------------------------
(* Readings of a run of main, used by the properties below *)

Fetched(n) == \E k \in 1..Len(fetch_log) : fetch_log[k].name = n
ManifestWritten == pc \in {"update_readme", "save_unversioned", "done"}
ManifestLines == Range(SplitLines(versions_file.text))
IsPrefix(pre, t) == Len(pre) <= Len(t) /\ SubSeq(t, 1, Len(pre)) = pre
\* Some line of the manifest is <org>/<n>@...
HasManifestEntry(org, n) ==
    \E l \in ManifestLines : IsPrefix(org \o <<"/">> \o n \o <<"@">>, l)
\* The selector returned a tag for n in this run
SelectedATag(n) ==
    \E k \in 1..Len(fetch_log) : fetch_log[k].name = n /\ ~fetch_log[k].latest.isNone
SelectedNone(n) ==
    \E k \in 1..Len(fetch_log) :
        fetch_log[k].name = n /\ ~fetch_log[k].raised /\ fetch_log[k].latest.isNone

----------------------------------------------------------------------------
(* C3 as stated: every name of the cache loaded at the start of a run never  *)
(* triggers a fetch_tags call in that run, and is in the set passed to       *)
(* save_unversioned at the end of that run.                                  *)

C3_EveryCachedNameCarried ==
    /\ \A n \in unversioned : ~Fetched(n)
    /\ pc = "done" => \A n \in unversioned :
          n \in new_unversioned /\ n \in load_unversioned(unversioned_file)

(* C3, amended: every name of the cache loaded at the start of a run never   *)
(* triggers a fetch_tags call in that run, and, if the repository listing of *)
(* that run returns it, is in the set passed to save_unversioned at the end  *)
(* of that run (a cached name the listing no longer returns is dropped).     *)

C3_CachedSkippedAndCarried ==
    /\ \A n \in unversioned : ~Fetched(n)
    /\ pc = "done" => \A n \in unversioned :
          IF n \in ListedNames(repos)
          THEN n \in new_unversioned /\ n \in load_unversioned(unversioned_file)
          ELSE n \notin new_unversioned /\ n \notin load_unversioned(unversioned_file)

\* A completed run that skipped a cached, listed name and fetched another
C3_Witness ==
    /\ pc = "done"
    /\ fetch_log # <<>>
    /\ unversioned \cap ListedNames(repos) # {}

----------------------------------------------------------------------------
(* C4: each configured additional (organization, repository) pair has its    *)
(* tags fetched individually and, when it has a qualifying tag, appears in   *)
(* the manifest as <its own org>/<repo>@<tag>.                               *)

C4_ExternalReposFetched ==
    pc = "done" =>
        \A i \in 1..Len(EXTERNAL_REPOS) :
            \E k \in 1..Len(fetch_log) :
                /\ fetch_log[k].org = EXTERNAL_REPOS[i].org
                /\ fetch_log[k].name = EXTERNAL_REPOS[i].repo
                /\ ~fetch_log[k].latest.isNone =>
                      HasManifestEntry(EXTERNAL_REPOS[i].org, EXTERNAL_REPOS[i].repo)

----------------------------------------------------------------------------
(* C5: the manifest a run writes holds exactly one line <org>/<repo>@<tag>   *)
(* per repository for which the selector returned a tag, ordered by          *)
(* lower-cased repository name, names that are equal in lower case kept in   *)
(* listing order, and ends with a newline (with no such repository it is a   *)
(* lone newline).                                                            *)

\* The (name, tag) pairs the selector produced, in listing order
RECURSIVE SelectedEntries(_)
SelectedEntries(log) ==
    IF log = <<>> THEN <<>>
    ELSE (IF log[1].latest.isNone THEN <<>>
          ELSE << [name |-> log[1].name, tag |-> log[1].latest.str] >>)
         \o SelectedEntries(Tail(log))
Bijections(n) == {f \in [1..n -> 1..n] : \A i, j \in 1..n : i # j => f[i] # f[j]}

\* C5: the manifest is the selected entries' lines, each ended by a newline,
\* in a stable order ascending in the lower-cased name.
C5_ManifestFormat ==
    ManifestWritten =>
        LET E == SelectedEntries(fetch_log)
            n == Len(E)
            line(e) == ORG_NAME \o <<"/">> \o e.name \o <<"@">> \o e.tag
        IN  /\ versions_file.exists
            /\ versions_file.text[Len(versions_file.text)] = "\n"
            /\ \E f \in Bijections(n) :
                /\ \A i, j \in 1..n : i < j =>
                     /\ ~StrLess(Lower(E[f[j]].name), Lower(E[f[i]].name))
                     /\ Lower(E[f[i]].name) = Lower(E[f[j]].name) => f[i] < f[j]
                /\ versions_file.text =
                     IF n = 0 THEN <<"\n">>
                     ELSE Flatten([k \in 1..n |-> line(E[f[k]]) \o <<"\n">>])

\* A manifest of b and B, listed in that order, both with a tag
C5_Witness ==
    /\ ManifestWritten
    /\ Len(fetch_log) = 2
    /\ fetch_log[1].name = <<"b">> /\ ~fetch_log[1].latest.isNone
    /\ fetch_log[2].name = <<"B">> /\ ~fetch_log[2].latest.isNone

----------------------------------------------------------------------------
(* C7: if a fatal error occurs at any point of a run, during the repository  *)
(* listing or during the tag fetch of any repository, none of the manifest,  *)
(* the documentation file and the cache file has been written in that run:   *)
(* all three are as the run found them.                                      *)

C7_FatalErrorWritesNothing ==
    pc = "aborted" => (Files = start_files /\ writes = <<>>)

\* A run that follows a completed one and fails in its second tag fetch
C7_Witness ==
    /\ pc = "aborted"
    /\ Len(fetch_log) = 2
    /\ fetch_log[2].raised
    /\ start_files[1].exists /\ start_files[2].exists /\ start_files[3].exists

----------------------------------------------------------------------------
(* C9 as stated: a name that is in the cache after some run is never         *)
(* tag-fetched again and never appears in the manifest of any later run.     *)

C9_CachedNeverRediscovered ==
    \A n \in cached_before :
        /\ ~Fetched(n)
        /\ ManifestWritten => ~HasManifestEntry(ORG_NAME, n)

(* C9, amended: a name that is in the cache after some run is not            *)
(* tag-fetched and does not appear in the manifest of any later run, for as  *)
(* long as the listing of every completed run in between has returned it,    *)
(* whatever tags the repository has gained.                                  *)

C9_ListedCachedNeverRediscovered ==
    \A n \in sticky :
        /\ ~Fetched(n)
        /\ ManifestWritten => ~HasManifestEntry(ORG_NAME, n)

\* A completed run that lists a name cached by an earlier run, after a run in
\* which the cache held two names
C9_Witness ==
    /\ pc = "done"
    /\ sticky \cap ListedNames(repos) # {}
    /\ Cardinality(cached_before) >= 2
    /\ fetch_log # <<>>

----------------------------------------------------------------------------
(* C10: after every completed run each listed name is in exactly one of the  *)
(* two outputs: it has a manifest entry iff it was not in the loaded cache   *)
(* and the selector returned a tag for it in this run, otherwise it is in    *)
(* the saved unversioned set; and a name is in the saved set only if it was  *)
(* carried from the loaded cache or the selector returned none for it.       *)

C10_OutputsPartitionListing ==
    pc = "done" =>
        LET saved == load_unversioned(unversioned_file)
        IN  /\ \A n \in ListedNames(repos) :
                /\ HasManifestEntry(ORG_NAME, n) <=>
                       (n \notin unversioned /\ SelectedATag(n))
                /\ ~HasManifestEntry(ORG_NAME, n) <=> n \in saved
            /\ \A n \in saved : n \in unversioned \/ SelectedNone(n)

\* A completed run with one listed name in the manifest and one carried from
\* the cache
C10_Witness ==
    /\ pc = "done"
    /\ \E n, m \in ListedNames(repos) :
        /\ HasManifestEntry(ORG_NAME, n)
        /\ m \in unversioned
        /\ m \in load_unversioned(unversioned_file)

----------------------------------------------------------------------------
(* C11 as stated: a run in which no fatal error occurs ends having issued at *)
(* most one tag fetch per listed repository and having written the manifest, *)
(* then the documentation section, then the cache, each exactly once.        *)

AtMostOneFetchPerListed ==
    /\ \A i, j \in 1..Len(fetch_log) : i # j => fetch_log[i].name # fetch_log[j].name
    /\ \A i \in 1..Len(fetch_log) : fetch_log[i].name \in ListedNames(repos)

C11_AllThreeWrittenInOrder ==
    /\ AtMostOneFetchPerListed
    /\ pc = "done" => writes = <<"versions.txt", "README.md", "unversioned.txt">>

(* C11, amended: provided no fatal error occurs and every paginated          *)
(* collection is finite, every run of main terminates, having issued at most *)
(* one tag fetch per listed repository and having written the manifest, then *)
(* the documentation section if the documentation file exists (the step is   *)
(* skipped if it does not), then the cache, each exactly once and in that    *)
(* order.                                                                    *)

Contains(t, part) ==
    \E i \in 1..(Len(t) - Len(part) + 1) : SubSeq(t, i, i + Len(part) - 1) = part
RunEndedWell ==
    pc = "done" =>
        /\ writes = IF start_files[2].exists
                    THEN <<"versions.txt", "README.md", "unversioned.txt">>
                    ELSE <<"versions.txt", "unversioned.txt">>
        /\ versions_file.exists /\ unversioned_file.exists
        /\ readme_file.exists = start_files[2].exists
        /\ readme_file.exists =>
              Contains(readme_file.text,
                       <<README_START_MARKER, "\n", Heading, "\n", "\n", Fence, "\n">>
                           \o versions_file.text \o <<Fence, "\n", README_END_MARKER>>)
Running == pc \in {"fetch_repos", "loop", "update_readme", "save_unversioned"}

\* How far a run is from its end: the statements left after the loop, and the
\* repositories left in the loop
Phase ==
    CASE pc = "fetch_repos" -> 4
      [] pc = "loop" -> 3
      [] pc = "update_readme" -> 2
      [] pc = "save_unversioned" -> 1
      [] OTHER -> 0
LeftInLoop == IF pc = "loop" THEN Len(repos) + 1 - idx ELSE 0

\* C11, amended: at most one tag fetch per listed repository; a run that ends
\* without a fatal error has written the manifest, the section of an existing
\* README, and the cache, once each and in that order; and every run ends: a
\* run that has not ended has a next step, and each step of a run brings it
\* closer to its end (a later statement, or a later repository of the loop).
C11_RunTerminates ==
    /\ [](AtMostOneFetchPerListed /\ RunEndedWell)
    /\ [](Running => ENABLED RunStep)
    /\ [][RunStep =>
            \/ Phase' < Phase
            \/ (Phase' = Phase /\ LeftInLoop' < LeftInLoop /\ LeftInLoop' >= 0)]_vars

\* The same end of every run as a temporal property of the runs in which a run
\* that has started keeps taking its steps
C11_EveryRunEnds == [](Running => <>(pc \in {"done", "aborted"}))

\* A completed run that fetched the tags of two repositories and wrote the
\* three files, the README for the first time
C11_Witness ==
    /\ pc = "done"
    /\ Len(fetch_log) = 2
    /\ writes = <<"versions.txt", "README.md", "unversioned.txt">>
    /\ ~(README_START_MARKER \in Range(start_files[2].text))

====
